---- MODULE Spec2Model ----
(***************************************************************************)
(* Model of the open-addressing hash table (core/table.h) and of the arena *)
(* and scoped allocator (core/memory.h, core/memory.cpp).                  *)
(***************************************************************************)
EXTENDS Integers, Sequences, FiniteSets, TLC

(***************************************************************************)
(* Bounds of the model.                                                    *)
(***************************************************************************)
NumKeys == 5
MaxVal == 2

Keys == 0 .. (NumKeys - 1)
Values == 1 .. MaxVal

(***************************************************************************)
(* 64-bit words.  A u64 is kept as four 16-bit limbs, least significant    *)
(* first, so that shifts and masks act on all 64 bits.                     *)
(***************************************************************************)
LimbBase == 65536

U64Zero == <<0, 0, 0, 0>>
U64Ones == <<LimbBase - 1, LimbBase - 1, LimbBase - 1, LimbBase - 1>>

\* usize -> u64 for the small values the model holds in integers; -1 is the
\* wrapped value of 0 - 1.
ToU64(n) ==
    IF n = -1 THEN U64Ones
    ELSE <<n % LimbBase, n \div LimbBase, 0, 0>>

FromU64(x) == x[1] + LimbBase * x[2]

RECURSIVE BitAnd(_, _)
BitAnd(a, b) ==
    IF a = 0 \/ b = 0 THEN 0
    ELSE (a % 2) * (b % 2) + 2 * BitAnd(a \div 2, b \div 2)

U64And(x, y) == [i \in 1 .. 4 |-> BitAnd(x[i], y[i])]

\* x >> 2
U64Shr2(x) ==
    [i \in 1 .. 4 |->
        (x[i] \div 4) + (IF i < 4 THEN (x[i + 1] % 4) * (LimbBase \div 4) ELSE 0)]

\* x | 0x8000000000000000
U64OrTopBit(x) ==
    [x EXCEPT ![4] = IF x[4] >= LimbBase \div 2 THEN x[4] ELSE x[4] + LimbBase \div 2]

\* 0x3FFFFFFFFFFFFFFF
Mask62 == <<LimbBase - 1, LimbBase - 1, LimbBase - 1, (LimbBase \div 4) - 1>>

(***************************************************************************)
(* Table constants and entry helpers.                                      *)
(***************************************************************************)
LOAD_FACTOR == 70
MIN_CAPACITY == 8

EMPTY == U64Zero
TOMBSTONE == U64Ones

NULL == -1
HANG == -2

ZeroEntry == [key |-> 0, value |-> 0, sign |-> EMPTY]

\* table_create_signature without the top bit
table_create_signature_NoTopBit(hash) == U64Shr2(hash)

table_create_signature(hash) == U64OrTopBit(U64Shr2(hash))

table_is_sentinel_entry(entry) == entry.sign = EMPTY \/ entry.sign = TOMBSTONE

(***************************************************************************)
(* Hash functions handed to make_table.  Table.hash_func holds the name of *)
(* the function, HashOf calls it.                                          *)
(***************************************************************************)
\* the test's badhash: every key hashes to ~0
badhash(key) == U64Ones

\* keys 2j and 2j+1 share a signature (they differ in the two bits the
\* signature drops), and neighbouring pairs start one slot apart
pairhash(key) == ToU64(4 * (key \div 2) + (key % 2))

\* keys 0, 1, 2 share a signature, the others start in slots of their own
clusterhash(key) == ToU64(4 * (IF key < 3 THEN 0 ELSE key + 1) + (key % 4))

\* every key starts in a slot of its own; the top bits of the hash are set
spreadhash(key) == <<(4 * key + 3) % LimbBase, 0, 0, LimbBase - 1>>

HashOf(f, key) ==
    CASE f = "badhash" -> badhash(key)
      [] f = "pairhash" -> pairhash(key)
      [] f = "clusterhash" -> clusterhash(key)
      [] f = "spreadhash" -> spreadhash(key)

DEFAULT_ALLOCATOR == "mallocator"
Allocators == {"mallocator", "linear"}

(***************************************************************************)
(* State.                                                                  *)
(***************************************************************************)
VARIABLES
    count,          \* Table.count
    entries,        \* Table.entries, a function on 0 .. capacity-1
    capacity,       \* Table.capacity
    allocator,      \* Table.allocator
    hash_func,      \* Table.hash_func
    status,         \* "ok"; "hung" when a call never returns; "crashed"; "deinit"
    entries_owner,  \* the allocator that allocated the current entry array
    releases,       \* the releases of entry arrays so far: owner and allocator used
    shadow,         \* per key, the value last passed to table_update since its removal
    alloc_fails     \* the table's allocator has run out: its alloc returns NULL

tvars == <<count, entries, capacity, allocator, hash_func, status,
           entries_owner, releases, shadow, alloc_fails>>

VARIABLES
    arena_capacity,   \* Arena.capacity
    arena_allocated,  \* Arena.allocated
    arena_data,       \* Arena.data, the bytes at offsets 0 .. capacity-1
    arena_base,       \* the address of Arena.data
    blocks,           \* the pointers the caller holds, as offsets into data
    scopes,           \* the open Linear_Allocators, innermost last
    arena_last,       \* the last arena call
    arena_ret,        \* and the pointer it returned
    arena_calls,      \* the number of calls made on the arena so far
    released          \* the held pointers that were passed to linear_free

avars == <<arena_capacity, arena_allocated, arena_data, arena_base, blocks,
           scopes, arena_last, arena_ret, arena_calls, released>>

VARIABLES
    sig_hash,         \* the hash handed to table_create_signature
    sig_value,        \* and the signature it returned, << >> before the call
    walk_capacity,    \* table->capacity of a probe walk over a table with no match
    walk_i,           \* the walk's i
    walk_probe,       \* the walk's probe
    walk_seen,        \* the slots read so far, in order
    pow_n,            \* the argument of nextpow2
    pow_result        \* and the value it returned, 0 before the call

pvars == <<sig_hash, sig_value, walk_capacity, walk_i, walk_probe, walk_seen,
           pow_n, pow_result>>

vars == <<tvars, avars, pvars>>

Table == [count |-> count, entries |-> entries, capacity |-> capacity,
          allocator |-> allocator, hash_func |-> hash_func]

(***************************************************************************)
(* nextpow2, the GCC/clang branch: 1 << (64 - clzl(n - 1)).                *)
(***************************************************************************)
RECURSIVE BitLen(_)
BitLen(n) == IF n = 0 THEN 0 ELSE 1 + BitLen(n \div 2)

Pow2(e) == 2 ^ e

\* nextpow2 taking the bit length of n in place of n - 1
nextpow2_NoMinusOne(n) == IF n = 1 THEN 1 ELSE Pow2(BitLen(n))

nextpow2(n) == IF n = 1 THEN 1 ELSE Pow2(BitLen(n - 1))

(***************************************************************************)
(* table_find_entry(table, key, sign): the probe walk.  n counts the slots *)
(* read so far.  The walk's position (i, probe mod capacity) returns to    *)
(* its start after 2 * capacity steps, so a walk that has read that many   *)
(* slots without leaving the loop never leaves it: HANG.                   *)
(***************************************************************************)
\* ProbeNext with the step squared
ProbeNext_Square(i, probe, cap) == (i + probe * probe) % cap

\* i += probe; for (; i >= capacity;) i -= capacity
ProbeNext(i, probe, cap) == (i + probe) % cap

\* ProbeResult returning the empty slot even when a removed one was met
ProbeResult_NoReuse(first_removed_slot, i) == i

\* if (first_removed_slot) return first_removed_slot; return entry;
ProbeResult(first_removed_slot, i) ==
    IF first_removed_slot # NULL THEN first_removed_slot ELSE i

RECURSIVE ProbeLoop(_, _, _, _, _, _, _)
ProbeLoop(table, key, sign, i, probe, first_removed_slot, n) ==
    LET entry == table.entries[i] IN
    IF entry.sign = EMPTY
    THEN [entry |-> ProbeResult(first_removed_slot, i),
          probes |-> n]
    ELSE IF entry.sign = sign /\ key = entry.key
    THEN [entry |-> i, probes |-> n]
    ELSE IF n >= 2 * table.capacity
    THEN [entry |-> HANG, probes |-> n]
    ELSE ProbeLoop(table, key, sign,
                   ProbeNext(i, probe, table.capacity),
                   probe + 1,
                   IF entry.sign = TOMBSTONE /\ first_removed_slot = NULL
                   THEN i ELSE first_removed_slot,
                   n + 1)

\* ProbeStart dropping two more bits of the signature
ProbeStart_ShiftAgain(table, sign) ==
    FromU64(U64And(U64Shr2(U64And(sign, Mask62)), ToU64(table.capacity - 1)))

\* hash = sign.value & 0x3FFFFFFFFFFFFFFF; i = hash & (capacity - 1)
ProbeStart(table, sign) ==
    FromU64(U64And(U64And(sign, Mask62), ToU64(table.capacity - 1)))

table_find_entry_sign(table, key, sign) ==
    IF table.capacity = table.count
    THEN [entry |-> NULL, probes |-> 0]
    ELSE ProbeLoop(table, key, sign, ProbeStart(table, sign), 1, NULL, 1)

table_find_entry(table, key) ==
    table_find_entry_sign(table, key, table_create_signature(HashOf(table.hash_func, key)))

\* table_find: the value found, NULL, or HANG when the probe never returns.
\* A NULL entry is dereferenced by table_is_sentinel_entry: CRASH.
CRASH == -3

table_find(table, key) ==
    IF table.capacity = 0 THEN NULL
    ELSE LET entry == table_find_entry(table, key).entry IN
         IF entry = HANG THEN HANG
         ELSE IF entry = NULL THEN CRASH
         ELSE IF ~table_is_sentinel_entry(table.entries[entry])
         THEN table.entries[entry].value
         ELSE NULL

(***************************************************************************)
(* table_expand.  The result carries the new table, how the call ended,    *)
(* the allocator asked for the new array and the allocator the old array   *)
(* was released through.                                                   *)
(***************************************************************************)
RECURSIVE ExpandLoop(_, _, _, _)
\* ExpandPlace without "entry->value = ptr->value"
\* ExpandSlot hashing the key again
ExpandSlot_Rehash(copy, old) == table_find_entry(copy, old.key).entry

\* table_find_entry(&copy, ptr->key, ptr->sign)
ExpandSlot(copy, old) == table_find_entry_sign(copy, old.key, old.sign).entry

ExpandPlace_NoValue(table, copy, ptr, old, entry) ==
    IF entry = HANG THEN [table |-> copy, status |-> "hung"]
    ELSE IF entry = NULL THEN [table |-> copy, status |-> "crashed"]
    ELSE ExpandLoop(table,
                    [copy EXCEPT !.entries[entry] =
                        [key |-> old.key, value |-> 0, sign |-> old.sign]],
                    ptr + 1, "ok")

ExpandPlace(table, copy, ptr, old, entry) ==
    IF entry = HANG THEN [table |-> copy, status |-> "hung"]
    ELSE IF entry = NULL THEN [table |-> copy, status |-> "crashed"]
    ELSE ExpandLoop(table,
                    [copy EXCEPT !.entries[entry] =
                        [key |-> old.key, value |-> old.value, sign |-> old.sign]],
                    ptr + 1, "ok")

ExpandLoop(table, copy, ptr, st) ==
    IF ptr = table.capacity THEN [table |-> copy, status |-> st]
    ELSE IF table_is_sentinel_entry(table.entries[ptr])
    THEN ExpandLoop(table, copy, ptr + 1, st)
    ELSE ExpandPlace(table, copy, ptr, table.entries[ptr],
                     ExpandSlot(copy, table.entries[ptr]))

ExpandInto(table, newcap) ==
    ExpandLoop(table,
               [count |-> table.count,
                entries |-> [i \in 0 .. (newcap - 1) |-> ZeroEntry],
                capacity |-> newcap,
                allocator |-> table.allocator,
                hash_func |-> table.hash_func],
               0, "ok")

table_expand(table, cap) == ExpandInto(table, nextpow2(cap))

\* the allocator table_expand asks for the new array, and the one it hands
\* the old array back to
ExpandAllocBy(table) == table.allocator
ExpandFreeVia(table) == table.allocator

(***************************************************************************)
(* table_create_entry and table_update.                                    *)
(***************************************************************************)
\* NeedsGrowth testing count in place of count + 1
NeedsGrowth_NoPlusOne(table) == table.count * 100 >= table.capacity * LOAD_FACTOR

NeedsGrowth(table) == (table.count + 1) * 100 >= table.capacity * LOAD_FACTOR

\* GrowTarget without the minimum capacity
GrowTarget_NoMinimum(table) ==
    IF table.capacity >= MIN_CAPACITY THEN table.capacity * 2 ELSE table.capacity + 1

\* GrowTarget shifting by two
GrowTarget_Quadruple(table) ==
    IF table.capacity >= MIN_CAPACITY THEN table.capacity * 4 ELSE MIN_CAPACITY

GrowTarget(table) ==
    IF table.capacity >= MIN_CAPACITY THEN table.capacity * 2 ELSE MIN_CAPACITY

\* CreateEntryAt counting the key even when its entry already exists
CreateEntryAt_AlwaysCount(t1, key, sign, entry) ==
    IF entry = HANG THEN [table |-> t1, entry |-> NULL, status |-> "hung"]
    ELSE IF entry = NULL THEN [table |-> t1, entry |-> NULL, status |-> "crashed"]
    ELSE [table |-> [t1 EXCEPT !.entries[entry].key = key,
                               !.entries[entry].sign = sign,
                               !.count = t1.count + 1],
          entry |-> entry, status |-> "ok"]

\* the slot is resolved in t1, the table after the growth check
CreateEntryAt(t1, key, sign, entry) ==
    IF entry = HANG THEN [table |-> t1, entry |-> NULL, status |-> "hung"]
    ELSE IF entry = NULL THEN [table |-> t1, entry |-> NULL, status |-> "crashed"]
    ELSE IF table_is_sentinel_entry(t1.entries[entry])
    THEN [table |-> [t1 EXCEPT !.entries[entry].key = key,
                               !.entries[entry].sign = sign,
                               !.count = t1.count + 1],
          entry |-> entry, status |-> "ok"]
    ELSE [table |-> t1, entry |-> entry, status |-> "ok"]

CreateEntryIn(ex, key, sign) ==
    IF ex.status # "ok"
    THEN [table |-> ex.table, entry |-> NULL, status |-> ex.status]
    ELSE CreateEntryAt(ex.table, key, sign,
                       table_find_entry_sign(ex.table, key, sign).entry)

\* [table, entry, status]: the table after the call and the slot returned
table_create_entry(table, key) ==
    CreateEntryIn(IF NeedsGrowth(table)
                  THEN table_expand(table, GrowTarget(table))
                  ELSE [table |-> table, status |-> "ok"],
                  key, table_create_signature(HashOf(table.hash_func, key)))

\* the ownership record after a call of table_expand on table
ReleasesAfterExpand(table, owner, rel) ==
    IF table.capacity = 0 THEN rel
    ELSE rel \cup {[owner |-> owner, via |-> ExpandFreeVia(table)]}

\* UpdateAt without the store of the value
UpdateAt_NoStore(r, value, array) ==
    IF r.status = "ok"
    THEN [table |-> r.table, ret |-> r.entry, status |-> "ok", array |-> array]
    ELSE [table |-> r.table, ret |-> NULL, status |-> r.status, array |-> array]

\* table_update after table_create_entry returned r: entry->value = value.
\* array tells what became of the entry array: "kept" or "new".
UpdateAt(r, value, array) ==
    IF r.status = "ok"
    THEN [table |-> [r.table EXCEPT !.entries[r.entry].value = value],
          ret |-> r.entry, status |-> "ok", array |-> array]
    ELSE [table |-> r.table, ret |-> NULL, status |-> r.status, array |-> array]

\* table_expand when mem::alloc returned NULL: memset(NULL, 0, n) and the
\* stores through copy.entries are undefined.  Either the first store traps,
\* the table untouched, or the stores go through (address 0 is mapped) and
\* the call goes on with an entry array that no allocator handed out.
UpdateOnNullArray(table, key, value) ==
    {[table |-> table, ret |-> NULL, status |-> "crashed", array |-> "kept"]}
        \cup {[o EXCEPT !.array = "null"] :
                  o \in {UpdateAt(table_create_entry(table, key), value, "new")}}

\* the outcomes of table_update(table, key, value): [table, ret, status, array],
\* ret the slot whose value is pointed to by the pointer returned
UpdateOutcomes(table, key, value, fails) ==
    IF NeedsGrowth(table) /\ fails
    THEN UpdateOnNullArray(table, key, value)
    ELSE {UpdateAt(table_create_entry(table, key), value,
                   IF NeedsGrowth(table) THEN "new" ELSE "kept")}

table_update(key, value) ==
    /\ status = "ok"
    /\ \E o \in UpdateOutcomes(Table, key, value, alloc_fails) :
          /\ count' = o.table.count
          /\ entries' = o.table.entries
          /\ capacity' = o.table.capacity
          /\ status' = o.status
          /\ shadow' = IF o.status = "ok" THEN [shadow EXCEPT ![key] = value]
                       ELSE shadow
          /\ entries_owner' = IF o.array = "kept" THEN entries_owner
                              ELSE IF o.array = "null" THEN "null"
                              ELSE ExpandAllocBy(Table)
          /\ releases' = IF o.array = "kept" THEN releases
                         ELSE ReleasesAfterExpand(Table, entries_owner, releases)
    /\ UNCHANGED <<allocator, hash_func, alloc_fails>>

(***************************************************************************)
(* table_remove.                                                           *)
(***************************************************************************)
\* the entry found is marked removed; ret is the value returned
RemoveAt(table, entry) ==
    IF entry = HANG THEN [table |-> table, ret |-> FALSE, status |-> "hung"]
    ELSE IF entry = NULL THEN [table |-> table, ret |-> FALSE, status |-> "crashed"]
    ELSE IF ~table_is_sentinel_entry(table.entries[entry])
    THEN [table |-> [table EXCEPT !.entries[entry].sign = TOMBSTONE,
                                  !.count = table.count - 1],
          ret |-> TRUE, status |-> "ok"]
    ELSE [table |-> table, ret |-> FALSE, status |-> "ok"]

\* [table, ret, status]: the table after table_remove(table, key), the value
\* returned and how the call ended
RemoveIn(table, key) ==
    IF table.count > 0
    THEN RemoveAt(table, table_find_entry(table, key).entry)
    ELSE [table |-> table, ret |-> FALSE, status |-> "ok"]

table_remove(key) ==
    /\ status = "ok"
    /\ \E r \in {RemoveIn(Table, key)} :
          /\ count' = r.table.count
          /\ entries' = r.table.entries
          /\ status' = r.status
          /\ shadow' = IF r.ret THEN [shadow EXCEPT ![key] = NULL] ELSE shadow
    /\ UNCHANGED <<capacity, allocator, hash_func, entries_owner, releases,
                   alloc_fails>>

(***************************************************************************)
(* Table::iterator, begin and end.  An iterator is its ptr, an index into  *)
(* the entry array; its end is table.capacity.                             *)
(***************************************************************************)
RECURSIVE SkipSentinels(_, _)
\* for (; ptr != end && table_is_sentinel_entry(ptr); ++ptr);
SkipSentinels(table, ptr) ==
    IF ptr # table.capacity /\ table_is_sentinel_entry(table.entries[ptr])
    THEN SkipSentinels(table, ptr + 1)
    ELSE ptr

begin(table) == SkipSentinels(table, 0)

end(table) == table.capacity

\* operator++ stepping to the next slot whatever it holds
iterator_next_NoSkip(table, ptr) == ptr + 1

\* operator++
iterator_next(table, ptr) == SkipSentinels(table, ptr + 1)

RECURSIVE IterateFrom(_, _)
\* for (auto it = begin(table); it != end(table); ++it): the slots *it reads
IterateFrom(table, it) ==
    IF it = end(table) THEN << >>
    ELSE <<it>> \o IterateFrom(table, iterator_next(table, it))

(***************************************************************************)
(* table_clear: memset(table->entries, 0, table->capacity) zeroes capacity *)
(* bytes of the array.  An entry of Table<int, int> is 16 bytes: key at 0, *)
(* value at 4, signature at 8.                                             *)
(***************************************************************************)
ENTRY_SIZE == 16
KEY_OFFSET == 0
VALUE_OFFSET == 4
SIGN_OFFSET == 8

\* x, a field of width bytes, with its m lowest bytes zeroed
ZeroLowBytes(x, m, width) ==
    IF m <= 0 THEN x
    ELSE IF m >= width THEN 0
    ELSE (x \div (256 ^ m)) * (256 ^ m)

\* the bytes of a field of the given width at byte offset off that lie
\* below byte n of the array
Zeroed(off, width, n) ==
    IF n <= off THEN 0 ELSE IF n >= off + width THEN width ELSE n - off

\* the entry stored at byte offset off after the first n bytes of the array
\* were set to zero
MemsetEntry(entry, off, n) ==
    [key |-> ZeroLowBytes(entry.key, Zeroed(off + KEY_OFFSET, 4, n), 4),
     value |-> ZeroLowBytes(entry.value, Zeroed(off + VALUE_OFFSET, 4, n), 4),
     sign |-> [j \in 1 .. 4 |->
                  ZeroLowBytes(entry.sign[j],
                               Zeroed(off + SIGN_OFFSET + 2 * (j - 1), 2, n), 2)]]

table_clear ==
    /\ status = "ok"
    /\ entries' = [i \in DOMAIN entries |->
                      MemsetEntry(entries[i], i * ENTRY_SIZE, capacity)]
    /\ count' = 0
    /\ shadow' = [k \in Keys |-> NULL]
    /\ UNCHANGED <<capacity, allocator, hash_func, status, entries_owner, releases,
                   alloc_fails>>

(***************************************************************************)
(* deinit(Table): mem::free(table.entries), the allocator argument is left *)
(* to its default.                                                         *)
(***************************************************************************)
deinit_Table ==
    /\ status = "ok"
    /\ status' = "deinit"
    /\ releases' = IF capacity = 0 THEN releases
                   ELSE releases \cup {[owner |-> entries_owner,
                                        via |-> DEFAULT_ALLOCATOR]}
    /\ UNCHANGED <<count, entries, capacity, allocator, hash_func,
                   entries_owner, shadow, alloc_fails>>

(***************************************************************************)
(* Arena.  Pointers into the arena are offsets from Arena.data; usize      *)
(* values are kept as the two's-complement representative next to 0, so a  *)
(* negative number stands for a value that wrapped past 2^64.              *)
(***************************************************************************)
ArenaCapacity == 44
MaxSizeWords == 2
MaxScopes == 2
MaxCalls == 6

HEADER_SIZE == 8
MAX_ALIGN == 16

Sizes == {4 * w : w \in 1 .. MaxSizeWords}
Aligns == {HEADER_SIZE, MAX_ALIGN}
ArenaBases == {0, HEADER_SIZE}

\* a <= b on usize
UsizeLeq(a, b) == IF (a < 0) = (b < 0) THEN a <= b ELSE b < 0

\* ((a) < (b) ? (a) : (b)) on usize
M_MIN(a, b) == IF a # b /\ UsizeLeq(a, b) THEN a ELSE b

\* result += (-result) & (align - 1), align a power of two
alignptr(ptr, align) == ptr + ((align - (ptr % align)) % align)

\* what the arena's memory holds before anything is written: every byte a
\* value of its own
FillByte(i) == 128 + (i % 128)

\* byte j of the usize x
UsizeByte(x, j) ==
    IF j > 3 THEN (IF x < 0 THEN 255 ELSE 0) ELSE (x \div (256 ^ j)) % 256

\* memcpy((usize *)ptr - 1, &size, sizeof(usize))
WriteHeader(data, ptr, size) ==
    [i \in DOMAIN data |->
        IF ptr - HEADER_SIZE <= i /\ i < ptr
        THEN UsizeByte(size, i - (ptr - HEADER_SIZE))
        ELSE data[i]]

\* memcpy(&block_size, (usize *)ptr - 1, sizeof(usize))
RECURSIVE ReadBytes(_, _, _)
ReadBytes(data, at, n) ==
    IF n = 0 THEN 0
    ELSE data[at] + (IF ReadBytes(data, at + 1, n - 1) = 0 THEN 0
                     ELSE 256 * ReadBytes(data, at + 1, n - 1))

\* the same with every byte complemented
RECURSIVE ReadBytesNot(_, _, _)
ReadBytesNot(data, at, n) ==
    IF n = 0 THEN 0
    ELSE (255 - data[at]) + (IF ReadBytesNot(data, at + 1, n - 1) = 0 THEN 0
                             ELSE 256 * ReadBytesNot(data, at + 1, n - 1))

\* a usize x with its top bit set is read as x - 2^64
ReadHeader(data, ptr) ==
    IF data[ptr - 1] >= 128
    THEN (0 - 1) - ReadBytesNot(data, ptr - HEADER_SIZE, HEADER_SIZE)
    ELSE ReadBytes(data, ptr - HEADER_SIZE, HEADER_SIZE)

\* the header before ptr holds the usize size, byte for byte
HeaderIs(data, ptr, size) ==
    \A j \in 0 .. (HEADER_SIZE - 1) :
        data[ptr - HEADER_SIZE + j] = UsizeByte(size, j)

\* memcpy(dst, src, n)
memcpy(data, dst, src, n) ==
    [i \in DOMAIN data |->
        IF dst <= i /\ i < dst + n THEN data[src + (i - dst)] ELSE data[i]]

Arena == [capacity |-> arena_capacity, allocated |-> arena_allocated,
          data |-> arena_data, base |-> arena_base]

(***************************************************************************)
(* arena_alloc and arena_realloc as functions of the arena: the arena      *)
(* after the call and the pointer returned.                                *)
(***************************************************************************)
\* ArenaAllocAt moving the cursor before the test against capacity
ArenaAllocAt_CursorFirst(arena, size, ptr, new_size) ==
    IF UsizeLeq(new_size, arena.capacity)
    THEN [arena |-> [arena EXCEPT !.data = WriteHeader(arena.data, ptr, size),
                                  !.allocated = new_size],
          ret |-> ptr]
    ELSE [arena |-> [arena EXCEPT !.allocated = new_size], ret |-> NULL]

\* ArenaAllocAt without the test against capacity
ArenaAllocAt_NoLimit(arena, size, ptr, new_size) ==
    [arena |-> [arena EXCEPT !.data = WriteHeader(arena.data, ptr, size),
                             !.allocated = new_size],
     ret |-> ptr]

ArenaAllocAt(arena, size, ptr, new_size) ==
    IF UsizeLeq(new_size, arena.capacity)
    THEN [arena |-> [arena EXCEPT !.data = WriteHeader(arena.data, ptr, size),
                                  !.allocated = new_size],
          ret |-> ptr]
    ELSE [arena |-> arena, ret |-> NULL]

\* ArenaAllocPtr leaving no room for the header
ArenaAllocPtr_NoHeader(arena, align) ==
    alignptr(arena.base + arena.allocated, align) - arena.base

ArenaAllocPtr(arena, align) ==
    alignptr(arena.base + arena.allocated + HEADER_SIZE, align) - arena.base

ArenaAlloc(arena, size, align) ==
    ArenaAllocAt(arena, size, ArenaAllocPtr(arena, align),
                 arena.allocated
                     + (ArenaAllocPtr(arena, align) - arena.allocated) + size)

\* ArenaReallocTail leaving the old size in the header
ArenaReallocTail_OldHeader(arena, ptr, size, new_size) ==
    IF UsizeLeq(new_size, arena.capacity)
    THEN [arena |-> [arena EXCEPT !.allocated = new_size], ret |-> ptr]
    ELSE [arena |-> arena, ret |-> NULL]

\* the block is the last one: grow or shrink in place
ArenaReallocTail(arena, ptr, size, new_size) ==
    IF UsizeLeq(new_size, arena.capacity)
    THEN [arena |-> [arena EXCEPT !.data = WriteHeader(arena.data, ptr, size),
                                  !.allocated = new_size],
          ret |-> ptr]
    ELSE [arena |-> arena, ret |-> NULL]

\* ArenaReallocCopy without the memcpy
ArenaReallocCopy_NoCopy(r, block, block_size, size) == r

\* otherwise a new block is allocated and the old bytes are copied
ArenaReallocCopy(r, block, block_size, size) ==
    IF r.ret # NULL
    THEN [arena |-> [r.arena EXCEPT !.data =
                        memcpy(r.arena.data, r.ret, block, M_MIN(block_size, size))],
          ret |-> r.ret]
    ELSE r

IsTail(arena, block) ==
    block + ReadHeader(arena.data, block) = arena.allocated

ArenaRealloc(arena, block, size, align) ==
    IF block = NULL THEN ArenaAlloc(arena, size, align)
    ELSE IF IsTail(arena, block)
    THEN ArenaReallocTail(arena, block, size,
                          arena.allocated + (size - ReadHeader(arena.data, block)))
    ELSE ArenaReallocCopy(ArenaAlloc(arena, size, align), block,
                          ReadHeader(arena.data, block), size)

(***************************************************************************)
(* The arena calls.                                                        *)
(***************************************************************************)
\* one more call, within the number of calls the model follows
Called ==
    /\ arena_calls < MaxCalls
    /\ arena_calls' = arena_calls + 1

make_arena(cap) ==
    /\ arena_capacity = cap
    /\ arena_allocated = 0
    /\ arena_data = [i \in 0 .. (cap - 1) |-> FillByte(i)]
    /\ arena_base \in ArenaBases
    /\ blocks = {}
    /\ scopes = << >>
    /\ arena_last = "make_arena"
    /\ arena_ret = NULL
    /\ arena_calls = 0
    /\ released = {}

arena_alloc(size, align) ==
    /\ Called
    /\ \E r \in {ArenaAlloc(Arena, size, align)} :
          /\ arena_allocated' = r.arena.allocated
          /\ arena_data' = r.arena.data
          /\ arena_ret' = r.ret
          /\ blocks' = IF r.ret = NULL THEN blocks ELSE blocks \cup {r.ret}
    /\ arena_last' = "alloc"
    /\ UNCHANGED <<arena_capacity, arena_base, scopes, released>>

\* block is NULL or a pointer the caller holds; the assert on its alignment
\* is the call's precondition
arena_realloc(block, size, align) ==
    /\ Called
    /\ block \in blocks \cup {NULL}
    /\ block # NULL => (arena_base + block) % align = 0
    /\ \E r \in {ArenaRealloc(Arena, block, size, align)} :
          /\ arena_allocated' = r.arena.allocated
          /\ arena_data' = r.arena.data
          /\ arena_ret' = r.ret
          /\ blocks' = IF r.ret = NULL THEN blocks
                       ELSE (blocks \ {block}) \cup {r.ret}
          /\ released' = IF r.ret = NULL THEN released
                         ELSE released \ {block, r.ret}
    /\ arena_last' = IF block = NULL THEN "realloc_null"
                     ELSE IF IsTail(Arena, block) THEN "realloc_tail"
                     ELSE "realloc_copy"
    /\ UNCHANGED <<arena_capacity, arena_base, scopes>>

arena_reset ==
    /\ Called
    /\ arena_allocated' = 0
    /\ blocks' = {}
    /\ arena_last' = "reset"
    /\ arena_ret' = NULL
    /\ released' = {}
    /\ UNCHANGED <<arena_capacity, arena_data, arena_base, scopes>>

(***************************************************************************)
(* Linear_Allocator.  opened_at is the value of arena.allocated the caller *)
(* saw when the scope was made; allocated_mark is the field.               *)
(***************************************************************************)
\* make_linear_allocator taking 0 for the mark
make_linear_allocator_ZeroMark ==
    /\ Called
    /\ Len(scopes) < MaxScopes
    /\ scopes' = Append(scopes, [allocated_mark |-> 0,
                                 opened_at |-> arena_allocated])
    /\ arena_last' = "make_linear_allocator"
    /\ arena_ret' = NULL
    /\ UNCHANGED <<arena_capacity, arena_allocated, arena_data, arena_base, blocks,
                   released>>

make_linear_allocator ==
    /\ Called
    /\ Len(scopes) < MaxScopes
    /\ scopes' = Append(scopes, [allocated_mark |-> arena_allocated,
                                 opened_at |-> arena_allocated])
    /\ arena_last' = "make_linear_allocator"
    /\ arena_ret' = NULL
    /\ UNCHANGED <<arena_capacity, arena_allocated, arena_data, arena_base, blocks,
                   released>>

linear_alloc(size, align) ==
    /\ scopes # << >>
    /\ arena_alloc(size, align)

linear_realloc(block, size, align) ==
    /\ scopes # << >>
    /\ arena_realloc(block, size, align)

\* linear_free moving the cursor back to the start of a last block
linear_free_Rewind(block) ==
    /\ scopes # << >>
    /\ Called
    /\ block \in blocks \cup {NULL}
    /\ arena_allocated' = IF block # NULL /\ IsTail(Arena, block)
                          THEN block - HEADER_SIZE ELSE arena_allocated
    /\ released' = IF block = NULL THEN released ELSE released \cup {block}
    /\ arena_last' = "free"
    /\ UNCHANGED <<arena_capacity, arena_data, arena_base, blocks, scopes,
                   arena_ret>>

\* both arguments are cast to void; the caller goes on holding the pointer
linear_free(block) ==
    /\ scopes # << >>
    /\ Called
    /\ block \in blocks \cup {NULL}
    /\ released' = IF block = NULL THEN released ELSE released \cup {block}
    /\ arena_last' = "free"
    /\ UNCHANGED <<arena_capacity, arena_allocated, arena_data, arena_base,
                   blocks, scopes, arena_ret>>

\* the scopes are ended innermost first; the blocks that reach past the
\* mark are given up with the scope
deinit_Linear_Allocator ==
    /\ scopes # << >>
    /\ Called
    /\ arena_allocated' = scopes[Len(scopes)].allocated_mark
    /\ scopes' = SubSeq(scopes, 1, Len(scopes) - 1)
    /\ blocks' = {b \in blocks :
                     b + ReadHeader(arena_data, b) <= scopes[Len(scopes)].allocated_mark}
    /\ released' = {b \in released :
                     b + ReadHeader(arena_data, b) <= scopes[Len(scopes)].allocated_mark}
    /\ arena_last' = "deinit"
    /\ arena_ret' = NULL
    /\ UNCHANGED <<arena_capacity, arena_data, arena_base>>

(***************************************************************************)
(* make_table(hash_func, allocator).                                       *)
(***************************************************************************)
make_table(hf, alloc) ==
    /\ count = 0
    /\ entries = << >>
    /\ capacity = 0
    /\ allocator = alloc
    /\ hash_func = hf
    /\ status = "ok"
    /\ entries_owner = "none"
    /\ releases = {}
    /\ shadow = [k \in Keys |-> NULL]
    /\ alloc_fails = FALSE

\* the table's allocator runs out of memory
allocator_exhausted ==
    /\ status = "ok"
    /\ ~alloc_fails
    /\ alloc_fails' = TRUE
    /\ UNCHANGED <<count, entries, capacity, allocator, hash_func, status,
                   entries_owner, releases, shadow>>

(***************************************************************************)
(* Spec: sequences of table_update and table_remove, two values per key.   *)
(***************************************************************************)
\* the table specifications leave the arena as make_arena returned it
ArenaIdle == make_arena(ArenaCapacity) /\ arena_base = 0

\* no call of nextpow2 under way
Pow2Idle ==
    /\ pow_n = 1
    /\ pow_result = 0

\* no signature asked for and no walk under way
PureIdle ==
    /\ Pow2Idle
    /\ sig_hash = U64Zero
    /\ sig_value = << >>
    /\ walk_capacity = 0
    /\ walk_i = 0
    /\ walk_probe = 1
    /\ walk_seen = << >>

Init ==
    /\ \E hf \in {"spreadhash", "clusterhash"} : make_table(hf, DEFAULT_ALLOCATOR)
    /\ ArenaIdle
    /\ PureIdle

Next ==
    /\ \/ \E k \in Keys, v \in Values : table_update(k, v)
       \/ \E k \in Keys : table_remove(k)
    /\ UNCHANGED <<avars, pvars>>

Spec == Init /\ [][Next]_vars

(***************************************************************************)
(* SpecChurn: the same calls under colliding hash functions, one value.    *)
(***************************************************************************)
InitChurn ==
    /\ \E hf \in {"pairhash", "badhash"} : make_table(hf, DEFAULT_ALLOCATOR)
    /\ ArenaIdle
    /\ PureIdle

NextChurn ==
    /\ \/ \E k \in Keys : table_update(k, MaxVal)
       \/ \E k \in Keys : table_remove(k)
    /\ UNCHANGED <<avars, pvars>>

SpecChurn == InitChurn /\ [][NextChurn]_vars

(***************************************************************************)
(* SpecLife: the whole life of a table made with either allocator.         *)
(***************************************************************************)
InitLife ==
    /\ \E alloc \in Allocators : make_table("spreadhash", alloc)
    /\ ArenaIdle
    /\ PureIdle

NextLife ==
    /\ \/ \E k \in Keys, v \in Values : table_update(k, v)
       \/ \E k \in Keys : table_remove(k)
       \/ table_clear
       \/ deinit_Table
    /\ UNCHANGED <<avars, pvars>>

SpecLife == InitLife /\ [][NextLife]_vars

(***************************************************************************)
(* SpecOom: table_update and table_remove on a table made with the linear  *)
(* allocator, which may run out at any time.                               *)
(***************************************************************************)
InitOom ==
    /\ make_table("clusterhash", "linear")
    /\ ArenaIdle
    /\ PureIdle

NextOom ==
    /\ \/ \E k \in Keys : table_update(k, MaxVal)
       \/ \E k \in Keys : table_remove(k)
       \/ allocator_exhausted
    /\ UNCHANGED <<avars, pvars>>

SpecOom == InitOom /\ [][NextOom]_vars

(***************************************************************************)
(* SpecArena: calls on one arena, directly and through scoped allocators   *)
(* ended in stack order.                                                   *)
(***************************************************************************)
InitArena ==
    /\ make_table("spreadhash", DEFAULT_ALLOCATOR)
    /\ make_arena(ArenaCapacity)
    /\ PureIdle

NextArena ==
    /\ \/ \E size \in Sizes, align \in Aligns : arena_alloc(size, align)
       \/ \E block \in blocks \cup {NULL}, size \in Sizes, align \in Aligns :
              arena_realloc(block, size, align)
       \/ arena_reset
       \/ make_linear_allocator
       \/ \E size \in Sizes, align \in Aligns : linear_alloc(size, align)
       \/ \E block \in blocks \cup {NULL}, size \in Sizes, align \in Aligns :
              linear_realloc(block, size, align)
       \/ deinit_Linear_Allocator
    /\ UNCHANGED <<tvars, pvars>>

SpecArena == InitArena /\ [][NextArena]_vars

(***************************************************************************)
(* SpecScope: blocks made on the arena and through Linear_Allocators that  *)
(* are opened and ended in stack order; the arena is never reset.          *)
(***************************************************************************)
InitScope ==
    /\ make_table("spreadhash", DEFAULT_ALLOCATOR)
    /\ make_arena(ArenaCapacity)
    /\ PureIdle

NextScope ==
    /\ \/ \E size \in Sizes, align \in Aligns : arena_alloc(size, align)
       \/ make_linear_allocator
       \/ \E size \in Sizes, align \in Aligns : linear_alloc(size, align)
       \/ \E block \in blocks \cup {NULL}, size \in Sizes, align \in Aligns :
              linear_realloc(block, size, align)
       \/ \E block \in blocks \cup {NULL} : linear_free(block)
       \/ deinit_Linear_Allocator
    /\ UNCHANGED <<tvars, pvars>>

SpecScope == InitScope /\ [][NextScope]_vars

(***************************************************************************)
(* SpecHuge: arena_alloc and arena_realloc with the sizes of SpecArena and *)
(* with sizes at the top of usize, 2^64 - 4w, written 0 - 4w.  A request   *)
(* is made only where the calls read and write inside the arena's memory:  *)
(* the header of a huge block lies below data + capacity, and the block    *)
(* handed to arena_realloc still has one of the ordinary sizes in its      *)
(* header, so that ptr + block_size is an address.                         *)
(***************************************************************************)
HugeSizes == {0 - 4 * w : w \in 1 .. MaxSizeWords}

InitHuge ==
    /\ make_table("spreadhash", DEFAULT_ALLOCATOR)
    /\ make_arena(ArenaCapacity)
    /\ PureIdle

NextHuge ==
    /\ \/ \E size \in Sizes \cup HugeSizes, align \in Aligns :
              /\ size \in HugeSizes => ArenaAllocPtr(Arena, align) <= arena_capacity
              /\ arena_alloc(size, align)
       \/ \E block \in blocks \cup {NULL}, size \in Sizes \cup HugeSizes,
              align \in Aligns :
              /\ block # NULL => \E s \in Sizes : HeaderIs(arena_data, block, s)
              /\ size \in HugeSizes => ArenaAllocPtr(Arena, align) <= arena_capacity
              /\ arena_realloc(block, size, align)
    /\ UNCHANGED <<tvars, pvars>>

SpecHuge == InitHuge /\ [][NextHuge]_vars

(***************************************************************************)
(* SpecArenaTest: the arena of test("Arena"), 512 bytes, with the sizes    *)
(* the test allocates.                                                     *)
(***************************************************************************)
TEST_ARENA_CAPACITY == 512
TestSizes == {4 * 100, 4 * 1, 4 * 2}

InitArenaTest ==
    /\ make_table("spreadhash", DEFAULT_ALLOCATOR)
    /\ make_arena(TEST_ARENA_CAPACITY)
    /\ PureIdle

NextArenaTest ==
    /\ \/ \E size \in TestSizes, align \in Aligns : arena_alloc(size, align)
       \/ arena_reset
    /\ UNCHANGED <<tvars, pvars>>

SpecArenaTest == InitArenaTest /\ [][NextArenaTest]_vars

(***************************************************************************)
(* SpecSign: table_create_signature applied to hashes whose limbs lie at   *)
(* the edges of the bit fields the function moves.                         *)
(***************************************************************************)
EdgeWidth == 1

EdgeLimbs ==
    {q * (LimbBase \div 4) + d : q \in 0 .. 3, d \in 0 .. EdgeWidth}
        \cup {LimbBase - 1 - d : d \in 0 .. EdgeWidth}

HashInputs == {<<a, b, c, d>> : a \in EdgeLimbs, b \in EdgeLimbs,
                                c \in EdgeLimbs, d \in EdgeLimbs}

create_signature ==
    /\ sig_value = << >>
    /\ sig_value' = table_create_signature(sig_hash)
    /\ UNCHANGED <<sig_hash, walk_capacity, walk_i, walk_probe, walk_seen,
                   pow_n, pow_result>>

InitSign ==
    /\ make_table("spreadhash", DEFAULT_ALLOCATOR)
    /\ ArenaIdle
    /\ Pow2Idle
    /\ sig_hash \in HashInputs
    /\ sig_value = << >>
    /\ walk_capacity = 0
    /\ walk_i = 0
    /\ walk_probe = 1
    /\ walk_seen = << >>

NextSign ==
    /\ create_signature
    /\ UNCHANGED <<tvars, avars>>

SpecSign == InitSign /\ [][NextSign]_vars

(***************************************************************************)
(* SpecWalk: the probe walk of table_find_entry over a table in which no   *)
(* slot ends it, for every power-of-two capacity and starting index.       *)
(***************************************************************************)
MaxLogCapacity == 5

WalkCapacities == {Pow2(e) : e \in 0 .. MaxLogCapacity}

\* usize i = hash & (capacity - 1); usize probe = 1
walk_begin(cap, index) ==
    /\ walk_capacity = cap
    /\ walk_i = index
    /\ walk_probe = 1
    /\ walk_seen = <<index>>

\* one pass of the loop body that meets neither an empty slot nor the key
walk_step ==
    /\ Len(walk_seen) < walk_capacity
    /\ walk_i' = ProbeNext(walk_i, walk_probe, walk_capacity)
    /\ walk_probe' = walk_probe + 1
    /\ walk_seen' = Append(walk_seen, ProbeNext(walk_i, walk_probe, walk_capacity))
    /\ UNCHANGED <<walk_capacity, sig_hash, sig_value, pow_n, pow_result>>

InitWalk ==
    /\ make_table("spreadhash", DEFAULT_ALLOCATOR)
    /\ ArenaIdle
    /\ Pow2Idle
    /\ sig_hash = U64Zero
    /\ sig_value = << >>
    /\ \E cap \in WalkCapacities : \E index \in 0 .. (cap - 1) :
          walk_begin(cap, index)

NextWalk ==
    /\ walk_step
    /\ UNCHANGED <<tvars, avars>>

SpecWalk == InitWalk /\ [][NextWalk]_vars

(***************************************************************************)
(* SpecPow2: nextpow2 applied to every n from 1 to MaxPow2Input.           *)
(***************************************************************************)
MaxPow2Input == 2050

call_nextpow2 ==
    /\ pow_result = 0
    /\ pow_result' = nextpow2(pow_n)
    /\ UNCHANGED <<pow_n, sig_hash, sig_value, walk_capacity, walk_i, walk_probe,
                   walk_seen>>

InitPow2 ==
    /\ make_table("spreadhash", DEFAULT_ALLOCATOR)
    /\ ArenaIdle
    /\ pow_n \in 1 .. MaxPow2Input
    /\ pow_result = 0
    /\ sig_hash = U64Zero
    /\ sig_value = << >>
    /\ walk_capacity = 0
    /\ walk_i = 0
    /\ walk_probe = 1
    /\ walk_seen = << >>

NextPow2 ==
    /\ call_nextpow2
    /\ UNCHANGED <<tvars, avars>>

SpecPow2 == InitPow2 /\ [][NextPow2]_vars

(***************************************************************************)
(* Views of a table used by the properties.                                *)
(***************************************************************************)
TableNext == [count |-> count', entries |-> entries', capacity |-> capacity',
              allocator |-> allocator', hash_func |-> hash_func']

OccupiedSlots(table) ==
    {i \in DOMAIN table.entries : ~table_is_sentinel_entry(table.entries[i])}

TombstoneSlots(table) ==
    {i \in DOMAIN table.entries : table.entries[i].sign = TOMBSTONE}

EmptySlots(table) ==
    {i \in DOMAIN table.entries : table.entries[i].sign = EMPTY}

Pairs(table) ==
    {<<table.entries[i].key, table.entries[i].value>> : i \in OccupiedSlots(table)}

KeyOnce(table) ==
    \A i, j \in OccupiedSlots(table) :
        table.entries[i].key = table.entries[j].key => i = j

LiveKeys == {k \in Keys : shadow[k] # NULL}

(***************************************************************************)
(* C1: after every step of a sequence of table_update and table_remove,    *)
(* table_find(k) returns the value last passed to table_update for k since *)
(* its last removal, and NULL when k was removed or never inserted.        *)
(***************************************************************************)
C1_FindReturnsLatest ==
    \A k \in Keys : table_find(Table, k) = shadow[k]

(***************************************************************************)
(* C2: after every step, count is the number of live keys, which is the    *)
(* number of entries whose signature is neither EMPTY nor TOMBSTONE.       *)
(***************************************************************************)
C2_CountIsLiveEntries ==
    /\ count = Cardinality(LiveKeys)
    /\ count = Cardinality(OccupiedSlots(Table))

C2_Witness ==
    /\ count >= 3
    /\ Cardinality(TombstoneSlots(Table)) >= 2
    /\ status = "ok"

(***************************************************************************)
(* C3: in every reachable table a table_find_entry call ends after probing *)
(* at most capacity slots; with no empty slot and the key absent it        *)
(* returns NULL.                                                           *)
(***************************************************************************)
C3_ProbeTerminates ==
    \A k \in Keys :
        \A r \in {table_find_entry(Table, k)} :
            /\ r.entry # HANG
            /\ r.probes <= capacity
            /\ (capacity > 0 /\ EmptySlots(Table) = {} /\ shadow[k] = NULL)
                   => r.entry = NULL

(***************************************************************************)
(* C4: after table_clear every entry has the EMPTY signature, count is 0,  *)
(* capacity is unchanged and table_find returns NULL for every key that    *)
(* was live before the call.                                               *)
(***************************************************************************)
C4_ClearEmptiesTable ==
    [][table_clear =>
          /\ \A i \in DOMAIN entries' : entries'[i].sign = EMPTY
          /\ count' = 0
          /\ capacity' = capacity
          /\ \A k \in LiveKeys : table_find(TableNext, k) = NULL]_vars

(***************************************************************************)
(* C5: every release of an entry array goes through the allocator that     *)
(* allocated it, the one the table was made with.                          *)
(***************************************************************************)
C5_ReleasedThroughOwner ==
    \A r \in releases : r.via = r.owner /\ r.owner = allocator

(***************************************************************************)
(* C6: table_expand keeps the live key->value mapping: the pairs of the    *)
(* occupied entries are the same set, every key is in exactly one entry,   *)
(* count is unchanged and table_find answers every key as before.          *)
(***************************************************************************)
C6_ExpandPreservesMapping ==
    \A ex \in {table_expand(Table, GrowTarget(Table))} :
        /\ ex.status = "ok"
        /\ Pairs(ex.table) = Pairs(Table)
        /\ KeyOnce(ex.table)
        /\ Cardinality(OccupiedSlots(ex.table)) = Cardinality(OccupiedSlots(Table))
        /\ ex.table.count = count
        /\ \A k \in Keys :
              \A before \in {table_find(Table, k)} :
                  /\ table_find(ex.table, k) # HANG
                  /\ before # HANG => table_find(ex.table, k) = before

C6_Witness ==
    /\ capacity = 2 * MIN_CAPACITY
    /\ count = NumKeys
    /\ \E i, j \in OccupiedSlots(Table) :
          i # j /\ entries[i].sign = entries[j].sign

(***************************************************************************)
(* C7: arena_realloc on the last block, with room for the difference,      *)
(* returns the same pointer, writes the new size into the header before it *)
(* and moves arena.allocated by new_size - old_size, growing or shrinking. *)
(***************************************************************************)
C7_TailReallocInPlace ==
    [][\A b \in blocks, size \in Sizes, align \in Aligns :
          (/\ b + ReadHeader(arena_data, b) = arena_allocated
           /\ arena_allocated + (size - ReadHeader(arena_data, b)) <= arena_capacity
           /\ arena_realloc(b, size, align))
          => /\ arena_ret' = b
             /\ ReadHeader(arena_data', b) = size
             /\ arena_allocated' - arena_allocated
                    = size - ReadHeader(arena_data, b)]_vars

C7_Witness ==
    /\ arena_last = "realloc_tail"
    /\ arena_ret \in blocks
    /\ arena_ret + ReadHeader(arena_data, arena_ret) = arena_allocated
    /\ Cardinality(blocks) >= 2

(***************************************************************************)
(* C8: arena_realloc on a block that is not the last one returns NULL or a *)
(* different pointer whose first min(old_size, new_size) bytes are the     *)
(* block's bytes; the block's bytes and header stay as they were.          *)
(***************************************************************************)
C8_NonTailReallocCopies ==
    [][\A b \in blocks, size \in Sizes, align \in Aligns :
          (/\ b + ReadHeader(arena_data, b) # arena_allocated
           /\ arena_realloc(b, size, align))
          => /\ \/ arena_ret' = NULL
                \/ /\ arena_ret' # b
                   /\ \A j \in 0 .. (M_MIN(ReadHeader(arena_data, b), size) - 1) :
                         arena_data'[arena_ret' + j] = arena_data[b + j]
             /\ \A j \in (b - HEADER_SIZE) .. (b + ReadHeader(arena_data, b) - 1) :
                   arena_data'[j] = arena_data[j]]_vars

C8_Witness ==
    /\ arena_last = "realloc_copy"
    /\ arena_ret # NULL
    /\ ReadHeader(arena_data, arena_ret) = 4 * MaxSizeWords

(***************************************************************************)
(* C9: ending a scope leaves arena.allocated at the value it had when the  *)
(* scope was made, whatever was allocated on the arena in between.         *)
(***************************************************************************)
C9_ScopeEndRestoresMark ==
    [][deinit_Linear_Allocator
          => arena_allocated' = scopes[Len(scopes)].opened_at]_vars

C9_Witness ==
    /\ arena_last = "deinit"
    /\ scopes = << >>
    /\ arena_calls >= 6
    /\ arena_allocated > 0
    /\ \E i \in DOMAIN arena_data :
          i >= arena_allocated /\ arena_data[i] # FillByte(i)

(***************************************************************************)
(* C10: 0 <= arena.allocated <= arena.capacity in every state, and the     *)
(* capacity is the one the arena was made with.                            *)
(***************************************************************************)
C10_AllocatedWithinCapacity ==
    /\ 0 <= arena_allocated
    /\ arena_allocated <= arena_capacity
    /\ arena_capacity = ArenaCapacity

C10_Witness ==
    /\ arena_last = "alloc"
    /\ arena_ret = NULL
    /\ arena_allocated < arena_capacity
    /\ scopes # << >>

(***************************************************************************)
(* C11: an arena_alloc or arena_realloc (last block or not) that cannot    *)
(* fit the request returns NULL and leaves arena.allocated, every block's  *)
(* header and every block's bytes as they were; the block passed to a      *)
(* failed arena_realloc keeps its old size.  The requests are those of     *)
(* Sizes and those of HugeSizes, which fit in no arena.                    *)
(***************************************************************************)
\* a size written as a negative number is 2^64 more: it fits nowhere
C11_NoFit(c, size, align) ==
    \/ size < 0
    \/ \A p \in 0 .. arena_capacity :
           ((arena_base + p) % align = 0 /\ p >= c + HEADER_SIZE)
               => p + size > arena_capacity

C11_NoFitInPlace(b, size) ==
    \/ size < 0
    \/ arena_allocated + size - ReadHeader(arena_data, b) > arena_capacity

C11_FailureLeavesArena ==
    [][/\ (arena_last' \in {"alloc", "realloc_null", "realloc_tail", "realloc_copy"}
              /\ arena_ret' = NULL)
          => /\ arena_allocated' = arena_allocated
             /\ blocks' = blocks
             /\ \A b \in blocks :
                   /\ ReadHeader(arena_data', b) = ReadHeader(arena_data, b)
                   /\ \A j \in 0 .. (ReadHeader(arena_data, b) - 1) :
                         arena_data'[b + j] = arena_data[b + j]
       /\ \A size \in Sizes \cup HugeSizes, align \in Aligns :
             /\ (C11_NoFit(arena_allocated, size, align) /\ arena_alloc(size, align))
                   => arena_ret' = NULL
             /\ \A b \in blocks :
                   (/\ IF b + ReadHeader(arena_data, b) = arena_allocated
                       THEN C11_NoFitInPlace(b, size)
                       ELSE C11_NoFit(arena_allocated, size, align)
                    /\ arena_realloc(b, size, align))
                   => arena_ret' = NULL]_vars

C11_Witness ==
    /\ arena_last = "realloc_tail"
    /\ arena_ret = NULL
    /\ Cardinality(blocks) >= 3

(***************************************************************************)
(* C12: with the arena's data aligned to align, a successful arena_alloc   *)
(* from cursor c returns the least multiple p of align with p >= c + 8,    *)
(* stores size in the 8 bytes before p and sets arena.allocated to         *)
(* p + size; 400 bytes at alignment 16 in the 512-byte arena leave         *)
(* allocated at 416, and 4, 8 and 4 bytes after that leave 436, 456, 468.  *)
(***************************************************************************)
C12_AllocPlacement ==
    [][/\ \A size \in TestSizes, align \in Aligns :
             (/\ arena_base % align = 0
              /\ arena_alloc(size, align)
              /\ arena_ret' # NULL)
             => /\ arena_ret' % align = 0
                /\ arena_ret' >= arena_allocated + 8
                /\ arena_ret' - align < arena_allocated + 8
                /\ ReadBytes(arena_data', arena_ret' - 8, 8) = size
                /\ arena_allocated' = arena_ret' + size
       /\ (arena_base % 16 = 0 /\ arena_allocated = 0 /\ arena_alloc(400, 16))
             => arena_allocated' = 416
       /\ (arena_base % 16 = 0 /\ arena_allocated = 416 /\ arena_alloc(4, 16))
             => arena_allocated' = 436
       /\ (arena_base % 16 = 0 /\ arena_allocated = 436 /\ arena_alloc(8, 16))
             => arena_allocated' = 456
       /\ (arena_base % 16 = 0 /\ arena_allocated = 456 /\ arena_alloc(4, 16))
             => arena_allocated' = 468]_vars

C12_Witness ==
    /\ arena_base = 0
    /\ arena_last = "alloc"
    /\ arena_allocated = 468
    /\ blocks = {16, 432, 448, 464}
    /\ ReadHeader(arena_data, 16) = 400
    /\ ReadHeader(arena_data, 448) = 8

(***************************************************************************)
(* C13: for every hash h, table_create_signature(h) has bit 63 set and     *)
(* bit 62 clear over the bits of h >> 2, so it is neither EMPTY nor        *)
(* TOMBSTONE and table_is_sentinel_entry is false for an entry holding it. *)
(***************************************************************************)
C13_SignatureNeverSentinel ==
    sig_value # << >> =>
        /\ sig_value # U64Zero
        /\ sig_value # U64Ones
        /\ ~table_is_sentinel_entry([key |-> 0, value |-> 0, sign |-> sig_value])
        /\ sig_value[4] = (LimbBase \div 2) + (sig_hash[4] \div 4)
        /\ \A j \in 1 .. 3 :
              sig_value[j] = (sig_hash[j] \div 4)
                                 + (sig_hash[j + 1] % 4) * (LimbBase \div 4)

C13_Witness ==
    /\ sig_hash = U64Ones
    /\ sig_value = <<LimbBase - 1, LimbBase - 1, LimbBase - 1, 3 * (LimbBase \div 4) - 1>>

(***************************************************************************)
(* C14: for a power-of-two capacity and any starting index, the n-th slot  *)
(* read by the probe walk is (index + n*(n+1)/2) mod capacity, and the     *)
(* first capacity slots read are all different: each slot exactly once.    *)
(***************************************************************************)
C14_WalkVisitsEachSlotOnce ==
    /\ \A m, n \in 1 .. Len(walk_seen) : walk_seen[m] = walk_seen[n] => m = n
    /\ \A n \in 1 .. Len(walk_seen) :
          walk_seen[n] = (walk_seen[1] + ((n - 1) * n) \div 2) % walk_capacity
    /\ Len(walk_seen) = walk_capacity
          => {walk_seen[n] : n \in 1 .. Len(walk_seen)} = 0 .. (walk_capacity - 1)

C14_Witness ==
    /\ walk_capacity = Pow2(MaxLogCapacity)
    /\ Len(walk_seen) = walk_capacity
    /\ walk_seen[1] = walk_capacity - 1

(***************************************************************************)
(* C15: after the growth check of table_create_entry and before the slot   *)
(* is looked up, (count + 1) * 100 < capacity * 70; and in every state     *)
(* with capacity > 0, count * 100 < capacity * 70 and count < capacity.    *)
(***************************************************************************)
C15_LoadFactorBeforeInsert ==
    /\ \A t1 \in {IF NeedsGrowth(Table)
                  THEN table_expand(Table, GrowTarget(Table)).table
                  ELSE Table} :
          (t1.count + 1) * 100 < t1.capacity * 70
    /\ capacity > 0 => (count * 100 < capacity * 70 /\ count < capacity)

C15_Witness ==
    /\ capacity = MIN_CAPACITY
    /\ (count + 1) * 100 >= capacity * 70
    /\ status = "ok"

(***************************************************************************)
(* C16: capacity is 0 or a power of two >= 8 in every state; it stays 0    *)
(* until the first table_update, which leaves it at 8.                     *)
(***************************************************************************)
C16_IsPowerOfTwo(n) == \E e \in 0 .. n : n = 2 ^ e

C17_CapacityOnlyGrows ==
    [][/\ capacity' >= capacity
       /\ capacity' # capacity =>
             /\ ~ \E k \in Keys : table_remove(k)
             /\ ~ table_clear
             /\ \E k \in Keys, v \in Values : table_update(k, v)
             /\ (count + 1) * 100 >= capacity * 70
             /\ capacity' = IF 2 * capacity > 8 THEN 2 * capacity ELSE 8]_vars

C17_Witness ==
    /\ capacity = 16
    /\ status = "ok"
    /\ TombstoneSlots(Table) # {}
    /\ count >= 1

(***************************************************************************)
(* C18: table_remove(k) returns, and returns true exactly when k was live; *)
(* when it returns true the one entry holding k has its signature set to   *)
(* TOMBSTONE and count is one less; when it returns false count and every  *)
(* entry are unchanged.                                                    *)
(***************************************************************************)
C18_RemoveReportsLiveness ==
    status = "ok" =>
        \A k \in Keys :
            \A r \in {RemoveIn(Table, k)} :
                /\ r.status = "ok"
                /\ r.ret <=> shadow[k] # NULL
                /\ r.ret =>
                      /\ r.table.count = count - 1
                      /\ \E i \in OccupiedSlots(Table) :
                            /\ entries[i].key = k
                            /\ r.table.entries = [entries EXCEPT ![i].sign = TOMBSTONE]
                /\ ~r.ret =>
                      /\ r.table.count = count
                      /\ r.table.entries = entries

(***************************************************************************)
(* C19: iterating from begin() to end() yields every occupied entry once,  *)
(* in increasing index order, and no EMPTY or TOMBSTONE entry; it yields   *)
(* table.count pairs, each a live (key, value) pair; with capacity 0       *)
(* begin() equals end().                                                   *)
(***************************************************************************)
C19_IterationYieldsLiveEntries ==
    \A seq \in {IterateFrom(Table, begin(Table))} :
        /\ \A n \in 1 .. (Len(seq) - 1) : seq[n] < seq[n + 1]
        /\ {seq[n] : n \in 1 .. Len(seq)} = OccupiedSlots(Table)
        /\ \A n \in 1 .. Len(seq) : ~table_is_sentinel_entry(entries[seq[n]])
        /\ Len(seq) = count
        /\ \A n \in 1 .. Len(seq) : shadow[entries[seq[n]].key] = entries[seq[n]].value
        /\ \A k \in LiveKeys : \E n \in 1 .. Len(seq) : entries[seq[n]].key = k
        /\ capacity = 0 => begin(Table) = end(Table)

C19_Witness ==
    /\ count >= 3
    /\ TombstoneSlots(Table) # {}
    /\ table_is_sentinel_entry(entries[0])
    /\ \E i \in OccupiedSlots(Table) : i + 1 \in TombstoneSlots(Table)
    /\ \E k \in Keys : shadow[k] = MaxVal

(***************************************************************************)
(* C20: when the allocator returns NULL for the new entry array during a   *)
(* growth in table_update, the call returns NULL, nothing is read or       *)
(* written through the NULL array, and the table's entries, count and      *)
(* capacity are as before.                                                 *)
(***************************************************************************)
C20_FailedGrowthReported ==
    (status = "ok" /\ alloc_fails /\ (count + 1) * 100 >= capacity * 70) =>
        \A k \in Keys, v \in Values :
            \A o \in UpdateOutcomes(Table, k, v, alloc_fails) :
                /\ o.status = "ok"
                /\ o.ret = NULL
                /\ o.array = "kept"
                /\ o.table = Table

(***************************************************************************)
(* C21: for n >= 1, nextpow2(n) is the least power of two >= n; a power of *)
(* two is returned as it is (1 -> 1, 16 -> 16, 17 -> 32, 2000 -> 2048), so *)
(* table_expand with a power-of-two capacity allocates that many entries.  *)
(***************************************************************************)
C21_IsPowerOfTwo(n) == \E e \in 0 .. BitLen(n) : n = 2 ^ e

C21_NextPow2IsLeast ==
    pow_result # 0 =>
        /\ C21_IsPowerOfTwo(pow_result)
        /\ pow_result >= pow_n
        /\ \A q \in pow_n .. (pow_result - 1) : ~C21_IsPowerOfTwo(q)
        /\ C21_IsPowerOfTwo(pow_n) =>
              /\ pow_result = pow_n
              /\ DOMAIN table_expand(Table, pow_n).table.entries = 0 .. (pow_n - 1)
        /\ pow_n = 1 => pow_result = 1
        /\ pow_n = 16 => pow_result = 16
        /\ pow_n = 17 => pow_result = 32
        /\ pow_n = 2000 => pow_result = 2048

C21_Witness ==
    /\ pow_n = 2000
    /\ pow_result = 2048

(***************************************************************************)
(* C22: releasing a block through a Linear_Allocator does nothing:         *)
(* arena.allocated, the scopes' marks, and every header and byte of the    *)
(* arena are as before; the released block is still held, its header still *)
(* reads its size, and a later reallocate of it resizes it in place when   *)
(* it is the last block and otherwise copies its bytes to a new block.     *)
(***************************************************************************)
C22_ReleasedStillUsable ==
    \A b \in released :
        /\ b \in blocks
        /\ ReadHeader(arena_data, b) \in Sizes
        /\ b + ReadHeader(arena_data, b) <= arena_allocated
        /\ \A size \in Sizes, align \in Aligns :
              (arena_base + b) % align = 0 =>
                  \A r \in {ArenaRealloc(Arena, b, size, align)} :
                      r.ret # NULL =>
                          /\ ReadHeader(r.arena.data, r.ret) = size
                          /\ IsTail(Arena, b) => r.ret = b
                          /\ \A j \in 0 .. (M_MIN(ReadHeader(arena_data, b), size) - 1) :
                                r.arena.data[r.ret + j] = arena_data[b + j]

C22_FreeChangesNothing ==
    arena_last' = "free" =>
        /\ arena_allocated' = arena_allocated
        /\ scopes' = scopes
        /\ arena_data' = arena_data
        /\ arena_capacity' = arena_capacity
        /\ blocks' = blocks

C22_LinearFreeIsNoOp ==
    /\ [](C22_ReleasedStillUsable)
    /\ [][C22_FreeChangesNothing]_vars

\* a released block that is no longer the last one, with the cursor past the
\* scope's mark
C22_Witness ==
    /\ arena_last = "realloc_copy"
    /\ released # {}
    /\ \E b \in released : ~IsTail(Arena, b)
    /\ scopes # << >>
    /\ arena_allocated > scopes[Len(scopes)].allocated_mark

(***************************************************************************)
(* C23: a lookup whose probe path ends at an empty slot returns the first  *)
(* TOMBSTONE met on the path if there is one and the empty slot otherwise; *)
(* a key that is live at a slot after a tombstone on its path is found at  *)
(* its live slot.                                                          *)
(***************************************************************************)
\* the j-th slot a lookup of key reads
C23_Path(key, j) ==
    (ProbeStart(Table, table_create_signature(HashOf(hash_func, key)))
        + (j * (j + 1)) \div 2) % capacity

C23_IsLive(key, i) ==
    /\ entries[i].sign = table_create_signature(HashOf(hash_func, key))
    /\ entries[i].key = key

C23_Stops(key, j) ==
    \/ entries[C23_Path(key, j)].sign = EMPTY
    \/ C23_IsLive(key, C23_Path(key, j))

\* the first step at which the lookup stops, and the tombstones before it
C23_Stop(key) ==
    CHOOSE j \in 0 .. (2 * capacity) :
        /\ C23_Stops(key, j)
        /\ \A h \in 0 .. (j - 1) : ~C23_Stops(key, h)

C23_TombstonesBefore(key, j) ==
    {h \in 0 .. (j - 1) : entries[C23_Path(key, h)].sign = TOMBSTONE}

C23_FirstTombstone(key, j) ==
    CHOOSE h \in C23_TombstonesBefore(key, j) :
        \A g \in C23_TombstonesBefore(key, j) : h <= g

C23_FindEntryPrefersTombstone ==
    (status = "ok" /\ capacity > 0 /\ capacity # count) =>
        \A key \in Keys :
            (\E j \in 0 .. (2 * capacity) : C23_Stops(key, j)) =>
                \A j \in {C23_Stop(key)} :
                    table_find_entry(Table, key).entry =
                        IF C23_IsLive(key, C23_Path(key, j))
                        THEN C23_Path(key, j)
                        ELSE IF C23_TombstonesBefore(key, j) # {}
                        THEN C23_Path(key, C23_FirstTombstone(key, j))
                        ELSE C23_Path(key, j)

\* one absent key with a tombstone before the empty slot of its path and one
\* live key with a tombstone before its slot
C23_Witness ==
    /\ status = "ok"
    /\ capacity > 0
    /\ capacity # count
    /\ \E key \in Keys :
          /\ \E j \in 0 .. (2 * capacity) : C23_Stops(key, j)
          /\ entries[C23_Path(key, C23_Stop(key))].sign = EMPTY
          /\ C23_TombstonesBefore(key, C23_Stop(key)) # {}
          /\ table_find_entry(Table, key).entry
                 = C23_Path(key, C23_FirstTombstone(key, C23_Stop(key)))
    /\ \E key \in Keys :
          /\ \E j \in 0 .. (2 * capacity) : C23_Stops(key, j)
          /\ C23_IsLive(key, C23_Path(key, C23_Stop(key)))
          /\ C23_TombstonesBefore(key, C23_Stop(key)) # {}
          /\ table_find_entry(Table, key).entry = C23_Path(key, C23_Stop(key))

(***************************************************************************)
(* C24: the first slot a lookup of key k reads is (h >> 2) & (capacity-1), *)
(* h the 64-bit value the table's hash function returns for k: the index   *)
(* is taken from the signature, which holds h shifted right by two bits.   *)
(* A lookup that finds that slot empty, or holding k, returns it.          *)
(***************************************************************************)
C24_ShiftedIndex(key) ==
    FromU64(U64And(U64Shr2(HashOf(hash_func, key)), ToU64(capacity - 1)))

C25_Expanded(table) == table_expand(table, 2 * table.capacity)

C25_ExpandUsesStoredSignature ==
    (status = "ok" /\ capacity > 0) =>
        \A ex \in {C25_Expanded(Table)} :
            /\ ex.status = "ok"
            /\ \A f \in {"badhash", "pairhash"} :
                  C25_Expanded([Table EXCEPT !.hash_func = f]).table.entries
                      = ex.table.entries
            /\ \A i \in OccupiedSlots(Table) :
                  \A j \in {table_find_entry(ex.table, entries[i].key).entry} :
                      /\ j \in 0 .. (2 * capacity - 1)
                      /\ ex.table.entries[j] = entries[i]
            /\ Cardinality(OccupiedSlots(ex.table)) = Cardinality(OccupiedSlots(Table))

\* a table with a tombstone whose expansion moves an entry to another slot
C25_Witness ==
    /\ status = "ok"
    /\ capacity = MIN_CAPACITY
    /\ count >= 2
    /\ TombstoneSlots(Table) # {}
    /\ \E i \in OccupiedSlots(Table) :
          /\ table_find_entry(C25_Expanded(Table).table, entries[i].key).entry # i
          /\ C25_Expanded(Table).table.entries[
                 table_find_entry(C25_Expanded(Table).table, entries[i].key).entry]
                 = entries[i]

(***************************************************************************)
(* C26: in every state with capacity > 0 reached by table_update and       *)
(* table_remove at least one entry has the EMPTY signature: the live       *)
(* entries and the tombstones together are fewer than capacity.            *)
(***************************************************************************)
C26_AlwaysAnEmptySlot ==
    (status = "ok" /\ capacity > 0) =>
        /\ EmptySlots(Table) # {}
        /\ count + Cardinality(TombstoneSlots(Table)) < capacity

(***************************************************************************)
(* C27: table_update on a key that is already live leaves count unchanged  *)
(* and makes the key's value the one given, every other key keeping its    *)
(* value.  When (count + 1) * 100 < capacity * LOAD_FACTOR at the call,    *)
(* capacity and the entries array are kept and no other field of any entry *)
(* changes; otherwise the table first grows to twice its capacity: a new   *)
(* array holds the live entries and no tombstone.                          *)
(***************************************************************************)
\* a step of table_update on a live key: no key appears or disappears
C27_LiveUpdate(key) ==
    /\ status = "ok"
    /\ status' = "ok"
    /\ shadow[key] # NULL
    /\ shadow'[key] # NULL
    /\ \A q \in Keys \ {key} : shadow'[q] = shadow[q]
    /\ shadow'[key] # shadow[key] \/ capacity' # capacity

C27_ValuesAfter(key) ==
    /\ count' = count
    /\ \A q \in Keys : table_find(TableNext, q) = shadow'[q]
    /\ \A q \in Keys \ {key} : table_find(TableNext, q) = table_find(Table, q)

C27_ArrayKept(key) ==
    /\ capacity' = capacity
    /\ entries_owner' = entries_owner
    /\ releases' = releases
    /\ \A i \in DOMAIN entries :
          /\ entries'[i].key = entries[i].key
          /\ entries'[i].sign = entries[i].sign
          /\ i # table_find_entry(Table, key).entry => entries'[i] = entries[i]

C27_ArrayGrown ==
    /\ capacity' = 2 * capacity
    /\ releases' # releases
    /\ TombstoneSlots(TableNext) = {}
    /\ {entries'[i].key : i \in OccupiedSlots(TableNext)}
           = {entries[i].key : i \in OccupiedSlots(Table)}

C27_LiveUpdateEffect ==
    [][\A key \in Keys :
          C27_LiveUpdate(key) =>
              /\ C27_ValuesAfter(key)
              /\ IF NeedsGrowth(Table) THEN C27_ArrayGrown ELSE C27_ArrayKept(key)]_vars

\* C27 as stated: the array is kept whatever the load
C27_LiveUpdateOnlyValue ==
    [][\A key \in Keys :
          C27_LiveUpdate(key) => (C27_ValuesAfter(key) /\ C27_ArrayKept(key))]_vars

\* every key is live in a table that has grown: the call that made it grow
\* was given a live key
C27_Witness ==
    /\ status = "ok"
    /\ capacity = 2 * MIN_CAPACITY
    /\ count = NumKeys
    /\ \A k \in Keys : shadow[k] # NULL
    /\ \E k \in Keys : table_find(Table, k) = MaxVal

(***************************************************************************)
(* C28: while a Linear_Allocator is open and the scopes are ended in stack *)
(* order, arena.allocated is not below the scope's allocated_mark after    *)
(* any arena_alloc or arena_realloc made through it, so that ending the    *)
(* scope never increases arena.allocated.                                  *)
(***************************************************************************)
C28_CursorNotBelowMark ==
    \A i \in 1 .. Len(scopes) : arena_allocated >= scopes[i].allocated_mark

C28_DeinitNeverIncreases ==
    arena_last' = "deinit" => arena_allocated' <= arena_allocated

C28_ScopeNeverBelowMark ==
    /\ [](C28_CursorNotBelowMark)
    /\ [][C28_DeinitNeverIncreases]_vars

(***************************************************************************)
(* C29: for any sequence of arena_alloc and arena_realloc, with no reset   *)
(* and no scope ended, the byte ranges [header, ptr + size) of the blocks  *)
(* still held are pairwise disjoint and lie inside [data, data+allocated). *)
(***************************************************************************)
C29_LiveBlocksDisjoint ==
    /\ \A b \in blocks :
          /\ b - HEADER_SIZE >= 0
          /\ ReadHeader(arena_data, b) >= 0
          /\ b + ReadHeader(arena_data, b) <= arena_allocated
    /\ \A b1, b2 \in blocks :
          b1 < b2 => b1 + ReadHeader(arena_data, b1) <= b2 - HEADER_SIZE

(***************************************************************************)
(* C30: arena_alloc and arena_realloc succeed only if the exact sum of the *)
(* cursor, header, padding and size is <= capacity, for sizes up to the    *)
(* maximum of usize; a successful arena_alloc strictly increases           *)
(* arena.allocated.                                                        *)
(***************************************************************************)
C30_Succeeded ==
    /\ arena_last' \in {"alloc", "realloc_null", "realloc_tail", "realloc_copy"}
    /\ arena_ret' # NULL

C30_NoOversizedSuccess ==
    [][C30_Succeeded =>
          /\ ReadHeader(arena_data', arena_ret') >= 0
          /\ arena_ret' + ReadHeader(arena_data', arena_ret') <= arena_capacity
          /\ arena_last' \in {"alloc", "realloc_null"}
                => arena_allocated' > arena_allocated]_vars

====
